---- MODULE Spec2Model ----
(***************************************************************************)
(* Model of helloadhavan/donkey-utils: the PCA9685 PWM driver that is      *)
(* copied into demo_script.py, donkey_motor_test.py and                    *)
(* steering_calibration.py, the two motion controllers built on it         *)
(* (PiRacerDemo, DonkeyCarController) and the routines that drive them.    *)
(*                                                                         *)
(* Execution is modelled at the granularity of one bus transfer.  The      *)
(* variable todo is the continuation of the running Python program: a      *)
(* sequence of pending operations.  A "call" is replaced, when it is       *)
(* reached, by the body of the called function; an exception unwinds todo  *)
(* to the nearest enclosing try statement that handles it.                 *)
(*                                                                         *)
(* Units: pulse widths are in microseconds (1.8 ms is 1800), normalized    *)
(* commands are in tenths (0.5 is 5), sleeps are in milliseconds.          *)
(* The float expressions of the source are evaluated exactly; for every    *)
(* input the model enumerates the exact value and the float value have     *)
(* the same integer part.                                                  *)
(*                                                                         *)
(* smbus2 (not part of the repository) is modelled by what it does:        *)
(* write_byte_data stores the low 8 bits of the value at the low 8 bits of *)
(* the register address, may raise OSError on a failed transfer, and       *)
(* raises on a bus that was closed; close() of a closed bus does nothing.  *)
(***************************************************************************)
EXTENDS Integers, Sequences, FiniteSets, TLC

VARIABLES
    script,            \* which source file runs
    routine,           \* the entry point started, or the class an outside caller constructs
    frequency,         \* PCA9685.frequency
    bus,               \* the smbus2 handle: "none", "open", "closed"
    regs,              \* the chip's register file, address -> byte
    old_mode,          \* init_pca9685's local old_mode
    controller,        \* is the name demo / car / pwm bound to a constructed object
    steering_center,   \* calibration fields of the motion controller
    steering_range,
    throttle_neutral,
    throttle_range,
    handler,           \* SIGINT disposition: "default" or "signal_handler"
    response,          \* the last line read by input()
    current_pos,       \* calibrate_steering's current_pos / best_position
    todo,              \* continuation: the pending operations
    exc,               \* the exception raised last ("none")
    uncaught,          \* the exception that left the outermost frame ("none")
    log,               \* the operations performed since the current activity began
                       \* (a statement of a routine, an except or finally clause,
                       \*  the signal handler, a call by the external caller)
    cleanups,          \* calls of cleanup() so far
    closes,            \* bus handles released so far
    late,              \* transfers attempted on the closed bus so far
    aborted,           \* did a SIGINT arrive while the controller was constructed
    again,             \* is the caller's current call a stop() right after a stop()
    interrupts,        \* SIGINTs delivered so far
    faults,            \* bus transfers that failed so far
    calls              \* calls made by the external caller so far

vars == << script, routine, frequency, bus, regs, old_mode, controller,
           steering_center, steering_range, throttle_neutral, throttle_range,
           handler, response, current_pos, todo, exc, uncaught, log,
           cleanups, closes, late, aborted, again,
           interrupts, faults, calls >>

----------------------------------------------------------------------------
(* Bounds of the model *)

\* SIGINTs the operator sends in one run
MaxInterrupts == 1
\* bus transfers that fail in one run
MaxFaults == 1
\* operations the external caller invokes on one object
MaxCalls == 2
\* +/- adjustments the operator makes in calibrate_steering's fine tuning
MaxAdjust == 1

----------------------------------------------------------------------------
(* Program constants *)

DEMO == "demo_script"
DONKEY == "donkey_motor_test"
CALIB == "steering_calibration"

MODE1 == 0
PRESCALE == 254
LED0_ON_L == 6
NumChannels == 16
DefaultFrequency == 60
RegAddrs == 0..255

STEERING_CHANNEL == 0
THROTTLE_CHANNEL == 1
\* steering_channel of steering_calibration
CALIB_CHANNEL == 1
\* demo_duration of run_demo, in seconds
demo_duration == 60

\* second and later operands of the bit operations of the source
SLEEP_BIT == 16
RESTART_MASK == 128
AI_BIT == 32

----------------------------------------------------------------------------
(* Operations and history events *)

\* k: the kind of operation, n: a name, x, y, z: its integer arguments
Op(k, n, x, y, z) == [k |-> k, n |-> n, x |-> x, y |-> y, z |-> z]
\* a function call n(x, y, z)
Call(n, x, y, z) == Op("call", n, x, y, z)
\* the end of function n, returning x (1: True, 0: False or None)
Ret(n, x)      == Op("ret", n, x, 0, 0)
\* self.bus.write_byte_data(self.address, reg, val)
Wr(reg, val)   == Op("write", "", reg, val, 0)
\* self.bus.read_byte_data(self.address, reg)
Rd(reg)        == Op("read", "", reg, 0, 0)
\* time.sleep(ms / 1000)
Slp(ms)        == Op("sleep", "", ms, 0, 0)
\* the end of the try block n that has except clauses
Try(n)         == Op("try", n, 0, 0, 0)
\* the except clause of try statement n
Except(n)      == Op("except", n, 0, 0, 0)
\* the finally clause of try statement n
Finally(n)     == Op("finally", n, 0, 0, 0)
\* the raise of exception n
Raise(n)       == Op("raise", n, 0, 0, 0)
\* a line read from the operator by input()
Input(n)       == Op("input", n, 0, 0, 0)
\* an assignment to the field or name n
Set(n, x)      == Op("set", n, x, 0, 0)
\* the rest of function n after a value the program waited for
Cont(n, x)     == Op("cont", n, x, 0, 0)
\* statement number i of the try block of routine n(a) is next
At(n, i, a)    == Op("at", n, i, a, 0)

\* history: the operation performed and how it ended
\* ("ok", "failed": the transfer failed, "closed": the bus was closed)
Ev(op, s) == [k |-> op.k, n |-> op.n, x |-> op.x, y |-> op.y, z |-> op.z, s |-> s]

----------------------------------------------------------------------------
(* Arithmetic of the source *)

\* Python's int() of the quotient a / b of two integers, b > 0: towards zero
TruncDiv(a, b) == IF a >= 0 THEN a \div b ELSE -((-a) \div b)

\* v | bit, for bit a power of two and v >= 0
BitOr(v, bit) == IF (v \div bit) % 2 = 1 THEN v ELSE v + bit

\* a variant of the prescale computation that rounds to the nearest integer
\* instead of truncating
prescale_rounded(f) == (2 * (25000000 - 4096 * f) + 4096 * f) \div (2 * 4096 * f)

\* int(25000000.0 / (4096.0 * self.frequency) - 1.0)
prescale(f) == TruncDiv(25000000 - 4096 * f, 4096 * f)

\* pulse_length = 1000000.0 / self.frequency / 4096.0
\* pulse_value = int(pulse_ms * 1000.0 / pulse_length)
\* that is int(pulse_us * f * 4096 / 1000000); the fraction 4096 / 1000000 is
\* written in lowest terms, 64 / 15625, to stay within TLC's 32-bit integers
pulse_value(pulse_us, f) == TruncDiv(pulse_us * f * 64, 15625)

\* if pulse_ms < 0.5: pulse_ms = 0.5 elif pulse_ms > 2.5: pulse_ms = 2.5
clamp_pulse(pulse_us) ==
    IF pulse_us < 500 THEN 500 ELSE IF pulse_us > 2500 THEN 2500 ELSE pulse_us

\* if angle < -1.0: angle = -1.0 elif angle > 1.0: angle = 1.0   (tenths)
clamp_command(c) == IF c < -10 THEN -10 ELSE IF c > 10 THEN 10 ELSE c

\* base_reg = 0x06 + 4 * channel
base_reg(channel) == LED0_ON_L + 4 * channel

----------------------------------------------------------------------------
(* PCA9685: the bodies of its methods, as operation sequences *)

\* a faulty variant of PCA9685.__init__: the initialisation is wrapped in a
\* try statement whose except clause swallows the error
PCA9685_init_swallowing(f) ==
    << Op("open", "", 1, 0, 0), Set("frequency", f),
       Call("init_pca9685", 0, 0, 0), Try("init_pca9685"), Ret("PCA9685", 0) >>

\* PCA9685.__init__(frequency): open the bus, store the frequency, initialise
PCA9685_init(f) ==
    << Op("open", "", 1, 0, 0), Set("frequency", f),
       Call("init_pca9685", 0, 0, 0), Ret("PCA9685", 0) >>

\* init_pca9685, up to the read of the mode register
init_pca9685 ==
    << Wr(MODE1, 0), Slp(10), Rd(MODE1), Cont("init_pca9685", 0) >>

\* a faulty variant of init_pca9685: the prescaler is written while the
\* oscillator still runs, before the chip is put to sleep
init_pca9685_tail_awake ==
    LET sleep_mode == BitOr(old_mode % RESTART_MASK, SLEEP_BIT) IN
    << Wr(PRESCALE, prescale(frequency)), Wr(MODE1, sleep_mode),
       Wr(MODE1, old_mode), Slp(10), Wr(MODE1, BitOr(old_mode, AI_BIT)),
       Ret("init_pca9685", 0) >>

\* init_pca9685, from the read of the mode register on
init_pca9685_tail ==
    LET sleep_mode == BitOr(old_mode % RESTART_MASK, SLEEP_BIT) IN
    << Wr(MODE1, sleep_mode), Wr(PRESCALE, prescale(frequency)),
       Wr(MODE1, old_mode), Slp(10), Wr(MODE1, BitOr(old_mode, AI_BIT)),
       Ret("init_pca9685", 0) >>

\* set_pwm(channel, on, off) of donkey_motor_test and steering_calibration
\* a faulty variant of set_pwm: the OFF bytes are written before the ON bytes
set_pwm_off_first(channel, on, off) ==
    << Wr(base_reg(channel) + 2, off % 256),
       Wr(base_reg(channel) + 3, off \div 256),
       Wr(base_reg(channel), on % 256),
       Wr(base_reg(channel) + 1, on \div 256),
       Ret("set_pwm", 0) >>

set_pwm(channel, on, off) ==
    << Wr(base_reg(channel), on % 256),
       Wr(base_reg(channel) + 1, on \div 256),
       Wr(base_reg(channel) + 2, off % 256),
       Wr(base_reg(channel) + 3, off \div 256),
       Ret("set_pwm", 0) >>

\* set_pulse of donkey_motor_test: clamps, converts, calls set_pwm
set_pulse_donkey(channel, pulse_us) ==
    << Call("set_pwm", channel, 0, pulse_value(clamp_pulse(pulse_us), frequency)),
       Ret("set_pulse", 0) >>

\* set_pulse of steering_calibration: converts, calls set_pwm
set_pulse_calib(channel, pulse_us) ==
    << Call("set_pwm", channel, 0, pulse_value(pulse_us, frequency)),
       Ret("set_pulse", 0) >>

\* set_pulse of demo_script: converts and writes the four registers itself
set_pulse_demo(channel, pulse_us) ==
    << Wr(base_reg(channel), 0),
       Wr(base_reg(channel) + 1, 0),
       Wr(base_reg(channel) + 2, pulse_value(pulse_us, frequency) % 256),
       Wr(base_reg(channel) + 3, pulse_value(pulse_us, frequency) \div 256),
       Ret("set_pulse", 0) >>

set_pulse(channel, pulse_us) ==
    IF script = DONKEY THEN set_pulse_donkey(channel, pulse_us)
    ELSE IF script = CALIB THEN set_pulse_calib(channel, pulse_us)
    ELSE set_pulse_demo(channel, pulse_us)

\* the four register writes stop_all_channels makes for one channel
stop_channel(channel) ==
    << Wr(base_reg(channel), 0), Wr(base_reg(channel) + 1, 0),
       Wr(base_reg(channel) + 2, 0), Wr(base_reg(channel) + 3, 0) >>

RECURSIVE stop_channels_from(_)
\* for channel in range(16), from channel on
stop_channels_from(channel) ==
    IF channel >= NumChannels THEN << >>
    ELSE stop_channel(channel) \o stop_channels_from(channel + 1)

\* a faulty variant of stop_all_channels: only the two channels the motion
\* controllers drive are stopped
stop_driven_channels ==
    stop_channel(STEERING_CHANNEL) \o stop_channel(THROTTLE_CHANNEL)
        \o << Ret("stop_all_channels", 0) >>

stop_all_channels == stop_channels_from(0) \o << Ret("stop_all_channels", 0) >>

\* PCA9685.close
close == << Op("close", "", 0, 0, 0), Ret("close", 0) >>

----------------------------------------------------------------------------
(* The motion controllers: DonkeyCarController and PiRacerDemo *)

\* DonkeyCarController.__init__
DonkeyCarController_init ==
    << Call("PCA9685", DefaultFrequency, 0, 0), Set("calibration", 0),
       Call("set_steering", 0, 0, 0), Call("set_throttle", 0, 0, 0),
       Ret("Controller", 0) >>

\* a faulty variant of PiRacerDemo.__init__: the controller is returned
\* without the initial stop()
PiRacerDemo_init_idle ==
    << Call("PCA9685", DefaultFrequency, 0, 0), Set("calibration", 0),
       Ret("Controller", 0) >>

\* PiRacerDemo.__init__
PiRacerDemo_init ==
    << Call("PCA9685", DefaultFrequency, 0, 0), Set("calibration", 0),
       Call("stop", 0, 0, 0), Ret("Controller", 0) >>

\* a faulty variant of set_steering: the command is not clamped to [-1, 1]
set_steering_unclamped(angle) ==
    LET pulse_us == steering_center + (angle * steering_range) \div 10 IN
    << Call("set_pulse", STEERING_CHANNEL, pulse_us, 0), Ret("set_steering", 0) >>

\* DonkeyCarController.set_steering(angle), angle in tenths
set_steering_donkey(angle) ==
    LET pulse_us == steering_center + (clamp_command(angle) * steering_range) \div 10 IN
    << Call("set_pulse", STEERING_CHANNEL, pulse_us, 0), Ret("set_steering", 0) >>

\* DonkeyCarController.set_throttle(speed), speed in tenths
set_throttle_donkey(speed) ==
    LET pulse_us == throttle_neutral + (clamp_command(speed) * throttle_range) \div 10 IN
    << Call("set_pulse", THROTTLE_CHANNEL, pulse_us, 0), Ret("set_throttle", 0) >>

\* PiRacerDemo.set_steering(pulse_ms)
set_steering_demo(pulse_us) ==
    << Call("set_pulse", STEERING_CHANNEL, pulse_us, 0), Ret("set_steering", 0) >>

\* PiRacerDemo.set_throttle(pulse_ms)
set_throttle_demo(pulse_us) ==
    << Call("set_pulse", THROTTLE_CHANNEL, pulse_us, 0), Ret("set_throttle", 0) >>

\* a faulty variant of stop: the steering is centred before the throttle
\* is brought to neutral
stop_steering_first ==
    << Call("set_steering", 0, 0, 0), Call("set_throttle", 0, 0, 0), Ret("stop", 0) >>

\* a faulty variant of stop: it also trims the stored steering center by
\* 0.01 ms
stop_trimming ==
    << Call("set_throttle", 0, 0, 0), Call("set_steering", 0, 0, 0),
       Set("steering_center", steering_center + 10), Ret("stop", 0) >>

\* DonkeyCarController.stop
stop_donkey ==
    << Call("set_throttle", 0, 0, 0), Call("set_steering", 0, 0, 0), Ret("stop", 0) >>

\* PiRacerDemo.stop
stop_demo ==
    << Call("set_throttle", throttle_neutral, 0, 0),
       Call("set_steering", steering_center, 0, 0), Ret("stop", 0) >>

\* DonkeyCarController.cleanup
cleanup_donkey ==
    << Call("stop", 0, 0, 0), Call("stop_all_channels", 0, 0, 0),
       Call("close", 0, 0, 0), Ret("cleanup", 0) >>

\* PiRacerDemo.cleanup
cleanup_demo ==
    << Call("stop", 0, 0, 0), Slp(500), Call("stop_all_channels", 0, 0, 0),
       Call("close", 0, 0, 0), Ret("cleanup", 0) >>

\* a faulty variant of set_steering_center: the new center is sent to the
\* servo at once
set_steering_center_emitting(center_us) ==
    << Set("steering_center", center_us), Call("set_steering", 0, 0, 0),
       Ret("set_steering_center", 0) >>

\* DonkeyCarController.set_steering_center(center_ms)
set_steering_center(center_us) ==
    << Set("steering_center", center_us), Ret("set_steering_center", 0) >>

----------------------------------------------------------------------------
(* demo_script.py: signal_handler and run_demo *)

\* signal_handler(sig, frame)
signal_handler ==
    (IF controller THEN << Call("cleanup", 0, 0, 0) >> ELSE << >>)
        \o << Raise("SystemExit") >>

\* run_demo: signal.signal(...), then the try statement
run_demo ==
    << Set("handler", 1), At("run_demo", 1, 0), Try("run_demo") >>

\* the try block of run_demo
run_demo_try ==
    << Call("Controller", 0, 0, 0), Set("controller", 1),
       Slp(1000), Slp(1000), Slp(1000), Slp(1000),
       Call("set_throttle", 1670, 0, 0), Call("set_steering", 1550, 0, 0),
       Cont("run_demo", 0),
       Call("stop", 0, 0, 0), Slp(2000),
       Call("cleanup", 0, 0, 0), Ret("run_demo", 1) >>

\* run_demo's while loop, after elapsed_s seconds
run_demo_loop(elapsed_s) ==
    IF elapsed_s >= demo_duration THEN << >>
    ELSE << Slp(1000), Cont("run_demo", elapsed_s + 1) >>

\* run_demo's except Exception clause
run_demo_except ==
    (IF controller THEN << Call("cleanup", 0, 0, 0) >> ELSE << >>)
        \o << Ret("run_demo", 0) >>

----------------------------------------------------------------------------
(* donkey_motor_test.py: the three test routines *)

\* one round of test_donkey_car's "for speed in speeds" loop
speed_round(speed) ==
    << Call("set_throttle", speed, 0, 0), Slp(1500),
       Call("set_throttle", 0, 0, 0), Slp(500) >>

test_donkey_car == << At("test_donkey_car", 1, 0), Try("test_donkey_car") >>

\* the try block of test_donkey_car
test_donkey_car_try ==
    << Call("Controller", 0, 0, 0), Set("controller", 1),
       Call("set_steering", 0, 0, 0), Slp(1000),
       Call("set_steering", -5, 0, 0), Slp(1000),
       Call("set_steering", 5, 0, 0), Slp(1000),
       Call("set_steering", 0, 0, 0), Slp(1000),
       Call("set_throttle", 0, 0, 0), Slp(2000),
       Call("set_throttle", 2, 0, 0), Slp(3000),
       Call("set_throttle", 0, 0, 0), Slp(2000),
       Call("set_throttle", -2, 0, 0), Slp(3000),
       Call("set_throttle", 0, 0, 0), Slp(1000),
       Call("set_throttle", 3, 0, 0), Call("set_steering", -3, 0, 0), Slp(2000),
       Call("set_steering", 3, 0, 0), Slp(2000),
       Call("stop", 0, 0, 0), Slp(1000) >>
    \o speed_round(1) \o speed_round(2) \o speed_round(3) \o speed_round(4)
    \o << Call("cleanup", 0, 0, 0), Ret("test_donkey_car", 1) >>

\* test_donkey_car's except Exception clause
test_donkey_car_except ==
    (IF controller THEN << Call("cleanup", 0, 0, 0) >>
                   ELSE << Raise("UnboundLocalError") >>)
        \o << Try("car.cleanup"), Ret("test_donkey_car", 0) >>

test_simple_donkey == << At("test_simple_donkey", 1, 0), Try("test_simple_donkey") >>

\* the try block of test_simple_donkey
test_simple_donkey_try ==
    << Call("Controller", 0, 0, 0), Set("controller", 1),
       Call("set_throttle", 2, 0, 0), Slp(2000), Call("set_throttle", 0, 0, 0),
       Call("set_throttle", -2, 0, 0), Slp(2000), Call("set_throttle", 0, 0, 0),
       Call("set_steering", -5, 0, 0), Slp(1000),
       Call("set_steering", 5, 0, 0), Slp(1000),
       Call("set_steering", 0, 0, 0),
       Call("cleanup", 0, 0, 0), Ret("test_simple_donkey", 1) >>

\* one round of debug_motor_channels' "for channel in range(8)" loop
debug_round(channel) ==
    << Call("set_pulse", channel, 1700, 0), Slp(3000),
       Call("set_pulse", channel, 1300, 0), Slp(3000),
       Call("set_pulse", channel, 1500, 0), Slp(1000) >>

RECURSIVE debug_rounds_from(_)
debug_rounds_from(channel) ==
    IF channel >= 8 THEN << >>
    ELSE debug_round(channel) \o debug_rounds_from(channel + 1)

\* one round of debug_motor_channels' "for channel in [1, 2, 3]" loop
extreme_round(channel) ==
    << Call("set_pulse", channel, 800, 0), Slp(2000),
       Call("set_pulse", channel, 1000, 0), Slp(2000),
       Call("set_pulse", channel, 1200, 0), Slp(2000),
       Call("set_pulse", channel, 1800, 0), Slp(2000),
       Call("set_pulse", channel, 2000, 0), Slp(2000),
       Call("set_pulse", channel, 2200, 0), Slp(2000),
       Call("set_pulse", channel, 1500, 0), Slp(1000) >>

debug_motor_channels ==
    << At("debug_motor_channels", 1, 0), Try("debug_motor_channels") >>

\* the try block of debug_motor_channels
debug_motor_channels_try ==
    << Call("PCA9685", DefaultFrequency, 0, 0), Set("controller", 1) >>
    \o debug_rounds_from(0)
    \o extreme_round(1) \o extreme_round(2) \o extreme_round(3)
    \o << Call("stop_all_channels", 0, 0, 0), Call("close", 0, 0, 0),
          Ret("debug_motor_channels", 1) >>

\* the except Exception clauses of test_simple_donkey and debug_motor_channels
return_False(n) == << Ret(n, 0) >>

----------------------------------------------------------------------------
(* steering_calibration.py: calibrate_steering and quick_test_center *)

test_positions == << 1300, 1350, 1400, 1450, 1500, 1550, 1600, 1650, 1700 >>

\* calibrate_steering: the controller, then the try statement
calibrate_steering ==
    << Call("PCA9685", DefaultFrequency, 0, 0), Set("controller", 1),
       Cont("calibrate_steering", 0), Ret("calibrate_steering", 0) >>

\* the try statement of calibrate_steering is entered
calibrate_steering_statement ==
    << At("calibrate_steering", 1, 0),
       Try("calibrate_steering"), Finally("calibrate_steering") >>

\* the try block of calibrate_steering
calibrate_steering_try ==
    << Cont("test_positions", 1),
       Input("best_position"),
       Cont("fine_tuning", 0),
       Cont("test_center", 0) >>

\* "for i, pulse_ms in enumerate(test_positions)", from position i on
test_positions_loop(i) ==
    IF i > Len(test_positions) THEN << >>
    ELSE << Call("set_pulse", CALIB_CHANNEL, test_positions[i], 0), Slp(2000),
            Input("response"), Cont("response", i) >>

\* the if / elif on response that ends the round for position i
test_positions_next(i) ==
    IF response \in {"y", "q"} THEN << >> ELSE << Cont("test_positions", i + 1) >>

\* "while True" of the fine tuning, round number k
fine_tuning_loop(k) ==
    << Call("set_pulse", CALIB_CHANNEL, current_pos, 0),
       Op("input", "cmd", k, 0, 0), Cont("cmd", k) >>

\* the if / elif on cmd that ends round k of the fine tuning
fine_tuning_next(k) ==
    IF response = "+" THEN << Set("current_pos", current_pos + 10), Cont("fine_tuning", k + 1) >>
    ELSE IF response = "-" THEN << Set("current_pos", current_pos - 10), Cont("fine_tuning", k + 1) >>
    ELSE IF response \in {"c", "q"} THEN << >>
    ELSE << Cont("fine_tuning", k + 1) >>

\* the center / left / center / right / center test of a position
test_center(center_us) ==
    << Call("set_pulse", CALIB_CHANNEL, center_us, 0), Slp(1000),
       Call("set_pulse", CALIB_CHANNEL, center_us - 300, 0), Slp(1000),
       Call("set_pulse", CALIB_CHANNEL, center_us, 0), Slp(1000),
       Call("set_pulse", CALIB_CHANNEL, center_us + 300, 0), Slp(1000),
       Call("set_pulse", CALIB_CHANNEL, center_us, 0), Slp(1000) >>

\* the finally clause of calibrate_steering and of quick_test_center
stop_servo ==
    << Call("set_pulse", CALIB_CHANNEL, 0, 0), Call("close", 0, 0, 0) >>

\* quick_test_center(center_ms): the controller, then the try statement
quick_test_center(center_us) ==
    << Call("PCA9685", DefaultFrequency, 0, 0), Set("controller", 1),
       Cont("quick_test_center", center_us), Ret("quick_test_center", 0) >>

\* the try statement of quick_test_center(center_ms) is entered
quick_test_center_statement(center_us) ==
    << At("quick_test_center", 1, center_us), Finally("quick_test_center") >>

\* the try block of quick_test_center(center_ms)
quick_test_center_try(center_us) ==
    << Call("set_pulse", CALIB_CHANNEL, center_us, 0), Slp(2000),
       Call("set_pulse", CALIB_CHANNEL, center_us - 300, 0), Slp(1000),
       Call("set_pulse", CALIB_CHANNEL, center_us, 0), Slp(1000),
       Call("set_pulse", CALIB_CHANNEL, center_us + 300, 0), Slp(1000),
       Call("set_pulse", CALIB_CHANNEL, center_us, 0), Slp(1000) >>

\* the statements of the try block of routine n(a)
TryBlock(n, a) ==
    CASE n = "run_demo"             -> run_demo_try
      [] n = "test_donkey_car"      -> test_donkey_car_try
      [] n = "test_simple_donkey"   -> test_simple_donkey_try
      [] n = "debug_motor_channels" -> debug_motor_channels_try
      [] n = "calibrate_steering"   -> calibrate_steering_try
      [] n = "quick_test_center"    -> quick_test_center_try(a)

\* the script's main block: demo_script calls run_demo(); the two others call
\* the chosen routine inside try / except KeyboardInterrupt / except Exception
main(r, arg) ==
    IF r = "run_demo" THEN << Call(r, 0, 0, 0) >>
    ELSE << Call(r, arg, 0, 0), Try("__main__") >>

----------------------------------------------------------------------------
(* Calls, exceptions *)

\* the body of the function, loop round or clause that operation op enters
Body(op) ==
    IF op.k = "call" THEN
        CASE op.n = "PCA9685"             -> PCA9685_init(op.x)
          [] op.n = "init_pca9685"        -> init_pca9685
          [] op.n = "set_pulse"           -> set_pulse(op.x, op.y)
          [] op.n = "set_pwm"             -> set_pwm(op.x, op.y, op.z)
          [] op.n = "stop_all_channels"   -> stop_all_channels
          [] op.n = "close"               -> close
          [] op.n = "Controller"          ->
                IF script = DONKEY THEN DonkeyCarController_init ELSE PiRacerDemo_init
          [] op.n = "set_steering"        ->
                IF script = DONKEY THEN set_steering_donkey(op.x) ELSE set_steering_demo(op.x)
          [] op.n = "set_throttle"        ->
                IF script = DONKEY THEN set_throttle_donkey(op.x) ELSE set_throttle_demo(op.x)
          [] op.n = "stop"                ->
                IF script = DONKEY THEN stop_donkey ELSE stop_demo
          [] op.n = "cleanup"             ->
                IF script = DONKEY THEN cleanup_donkey ELSE cleanup_demo
          [] op.n = "set_steering_center" -> set_steering_center(op.x)
          [] op.n = "signal_handler"      -> signal_handler
          [] op.n = "run_demo"            -> run_demo
          [] op.n = "test_donkey_car"     -> test_donkey_car
          [] op.n = "test_simple_donkey"  -> test_simple_donkey
          [] op.n = "debug_motor_channels" -> debug_motor_channels
          [] op.n = "calibrate_steering"  -> calibrate_steering
          [] op.n = "quick_test_center"   -> quick_test_center(op.x)
    ELSE IF op.k = "cont" THEN
        CASE op.n = "init_pca9685"   -> init_pca9685_tail
          [] op.n = "run_demo"       -> run_demo_loop(op.x)
          [] op.n = "test_positions" -> test_positions_loop(op.x)
          [] op.n = "response"       -> test_positions_next(op.x)
          [] op.n = "fine_tuning"    -> fine_tuning_loop(op.x)
          [] op.n = "cmd"            -> fine_tuning_next(op.x)
          [] op.n = "test_center"    -> test_center(current_pos)
          [] op.n = "calibrate_steering" -> calibrate_steering_statement
          [] op.n = "quick_test_center"  -> quick_test_center_statement(op.x)
    ELSE IF op.k = "except" THEN
        CASE op.n = "run_demo"        -> run_demo_except
          [] op.n = "test_donkey_car" -> test_donkey_car_except
          [] op.n \in {"test_simple_donkey", "debug_motor_channels"} -> return_False(op.n)
          [] OTHER                    -> << >>
    ELSE stop_servo

\* KeyboardInterrupt and SystemExit are not subclasses of Exception
IsException(kind) == kind \notin {"KeyboardInterrupt", "SystemExit"}

\* does an except clause of try statement n handle an exception of this kind
Catches(n, kind) ==
    CASE n = "__main__"           -> kind # "SystemExit"
      [] n = "calibrate_steering" -> kind = "KeyboardInterrupt"
      [] n = "car.cleanup"        -> TRUE
      [] OTHER                    -> IsException(kind)

\* the places of ops where an exception of this kind stops being passed up:
\* a try statement that handles it, or a finally clause
Stops(ops, kind) ==
    { i \in 1..Len(ops) :
        \/ ops[i].k = "finally"
        \/ ops[i].k = "try" /\ Catches(ops[i].n, kind) }

\* the continuation after an exception of this kind is raised in front of ops:
\* the frames up to the nearest try statement that handles it are dropped; a
\* finally clause on the way runs and raises the exception again
Unwind(ops, kind) ==
    IF Stops(ops, kind) = {} THEN << >>
    ELSE LET i == CHOOSE i \in Stops(ops, kind) : \A j \in Stops(ops, kind) : i <= j
             rest == SubSeq(ops, i + 1, Len(ops))
         IN  IF ops[i].k = "try" THEN << Except(ops[i].n) >> \o rest
             ELSE << ops[i], Raise(kind) >> \o rest

----------------------------------------------------------------------------
(* Initial states *)

Routines == { "run_demo", "test_donkey_car", "test_simple_donkey",
              "debug_motor_channels", "calibrate_steering", "quick_test_center" }

ScriptOf(r) ==
    IF r = "run_demo" THEN DEMO
    ELSE IF r \in {"calibrate_steering", "quick_test_center"} THEN CALIB
    ELSE DONKEY

\* the values the operator may type for a position, in microseconds
PositionInputs == { 200, 1500, 20000 }

\* a chip whose registers are all 0
BlankRegs == [a \in RegAddrs |-> 0]

\* the channels an earlier run left pulsing
StaleChannels == {0, 1, 15}

\* a chip left by an earlier run: 60 Hz, the stale channels at 417 ticks (1.7 ms)
StaleRegs ==
    [a \in RegAddrs |->
        IF a = MODE1 THEN AI_BIT
        ELSE IF a = PRESCALE THEN 100
        ELSE IF \E c \in StaleChannels : a = base_reg(c) + 2 THEN 161
        ELSE IF \E c \in StaleChannels : a = base_reg(c) + 3 THEN 1
        ELSE 0]

InitCommon ==
    /\ frequency = 0
    /\ bus = "none"
    /\ regs \in {BlankRegs, StaleRegs}
    /\ old_mode = 0
    /\ controller = FALSE
    /\ steering_center = 0
    /\ steering_range = 0
    /\ throttle_neutral = 0
    /\ throttle_range = 0
    /\ handler = "default"
    /\ response = ""
    /\ current_pos = 0
    /\ exc = "none"
    /\ uncaught = "none"
    /\ log = << >>
    /\ cleanups = 0
    /\ closes = 0
    /\ late = 0
    /\ aborted = FALSE
    /\ again = FALSE
    /\ interrupts = 0
    /\ faults = 0
    /\ calls = 0

\* a script is started and one of its routines chosen
Init ==
    /\ routine \in Routines
    /\ script = ScriptOf(routine)
    /\ \E arg \in PositionInputs :
          todo = main(routine, IF routine = "quick_test_center" THEN arg ELSE 0)
    /\ InitCommon

----------------------------------------------------------------------------
(* Steps of the running program *)

program  == << script, routine >>
chip     == << frequency, bus, regs, old_mode >>
fields   == << controller, steering_center, steering_range, throttle_neutral,
               throttle_range >>
console  == << handler, response, current_pos >>
raising  == << exc, uncaught >>
counters == << cleanups, closes, late, aborted, again >>
budget   == << interrupts, faults, calls >>

Running == todo # << >>

Logged(op, s) == log' = Append(log, Ev(op, s))

\* an exception of this kind is raised with rest as the continuation
Raising(rest, kind) ==
    /\ todo' = Unwind(rest, kind)
    /\ exc' = kind
    /\ uncaught' = IF Unwind(rest, kind) = << >> THEN kind ELSE uncaught

\* the next statement of a routine's try block begins
DoStatement ==
    /\ Running
    /\ Head(todo).k = "at"
    /\ LET h == Head(todo)
           block == TryBlock(h.n, h.y)
       IN  IF h.x > Len(block)
           THEN todo' = Tail(todo) /\ UNCHANGED log
           ELSE /\ todo' = << block[h.x], At(h.n, h.x + 1, h.y) >> \o Tail(todo)
                /\ log' = << >>
    /\ UNCHANGED << program, chip, fields, console, raising, counters, budget >>

\* a function is called, or a loop round entered
DoCall ==
    /\ Running
    /\ Head(todo).k \in {"call", "cont"}
    /\ todo' = Body(Head(todo)) \o Tail(todo)
    /\ log' = IF Head(todo).n = "signal_handler" THEN << Ev(Head(todo), "ok") >>
              ELSE Append(log, Ev(Head(todo), "ok"))
    /\ cleanups' = IF Head(todo).n = "cleanup" THEN cleanups + 1 ELSE cleanups
    /\ UNCHANGED << program, chip, fields, console, raising, closes, late, aborted, again,
                    budget >>

\* an except or finally clause is entered
DoClause ==
    /\ Running
    /\ Head(todo).k \in {"except", "finally"}
    /\ todo' = Body(Head(todo)) \o Tail(todo)
    /\ log' = << Ev(Head(todo), "ok") >>
    /\ UNCHANGED << program, chip, fields, console, raising, counters, budget >>

\* a function returns, or a try block ends without an exception
DoReturn ==
    /\ Running
    /\ Head(todo).k \in {"ret", "try"}
    /\ todo' = Tail(todo)
    /\ Logged(Head(todo), "ok")
    /\ UNCHANGED << program, chip, fields, console, raising, counters, budget >>

\* time.sleep
DoSleep ==
    /\ Running
    /\ Head(todo).k = "sleep"
    /\ todo' = Tail(todo)
    /\ Logged(Head(todo), "ok")
    /\ UNCHANGED << program, chip, fields, console, raising, counters, budget >>

\* an assignment to a field of self, to the name of the controller, or
\* signal.signal(signal.SIGINT, signal_handler)
DoSet ==
    /\ Running
    /\ Head(todo).k = "set"
    /\ LET h == Head(todo) IN
        /\ frequency' = IF h.n = "frequency" THEN h.x ELSE frequency
        /\ steering_center' =
              IF h.n = "calibration" THEN 1800
              ELSE IF h.n = "steering_center" THEN h.x ELSE steering_center
        /\ steering_range' =
              IF h.n = "calibration" THEN (IF script = DONKEY THEN 500 ELSE 0)
              ELSE steering_range
        /\ throttle_neutral' = IF h.n = "calibration" THEN 1500 ELSE throttle_neutral
        /\ throttle_range' =
              IF h.n = "calibration" THEN (IF script = DONKEY THEN 400 ELSE 0)
              ELSE throttle_range
        /\ controller' = IF h.n = "controller" THEN TRUE ELSE controller
        /\ handler' = IF h.n = "handler" THEN "signal_handler" ELSE handler
        /\ current_pos' = IF h.n = "current_pos" THEN h.x ELSE current_pos
        /\ Logged(h, "ok")
    /\ todo' = Tail(todo)
    /\ UNCHANGED << program, bus, regs, old_mode, response, raising, counters, budget >>

\* smbus2.SMBus(channel)
DoOpen ==
    /\ Running
    /\ Head(todo).k = "open"
    /\ bus' = "open"
    /\ todo' = Tail(todo)
    /\ Logged(Head(todo), "ok")
    /\ UNCHANGED << program, frequency, regs, old_mode, fields, console,
                    raising, counters, budget >>

\* self.bus.close(): releases an open handle, does nothing to a closed one
DoClose ==
    /\ Running
    /\ Head(todo).k = "close"
    /\ bus' = "closed"
    /\ closes' = IF bus = "open" THEN closes + 1 ELSE closes
    /\ todo' = Tail(todo)
    /\ Logged(Head(todo), IF bus = "open" THEN "ok" ELSE "closed")
    /\ UNCHANGED << program, frequency, regs, old_mode, fields, console,
                    raising, cleanups, late, aborted, again, budget >>

\* write_byte_data on the open bus: the transfer succeeds
DoWrite ==
    /\ Running
    /\ Head(todo).k = "write"
    /\ bus = "open"
    /\ regs' = [regs EXCEPT ![Head(todo).x % 256] = Head(todo).y % 256]
    /\ todo' = Tail(todo)
    /\ Logged(Head(todo), "ok")
    /\ UNCHANGED << program, frequency, bus, old_mode, fields, console,
                    raising, counters, budget >>

\* read_byte_data on the open bus: the transfer succeeds
DoRead ==
    /\ Running
    /\ Head(todo).k = "read"
    /\ bus = "open"
    /\ old_mode' = regs[Head(todo).x % 256]
    /\ todo' = Tail(todo)
    /\ Logged(Head(todo), "ok")
    /\ UNCHANGED << program, frequency, bus, regs, fields, console,
                    raising, counters, budget >>

\* a transfer on the open bus fails: smbus2 raises OSError, no register changes
TransferFails ==
    /\ Running
    /\ Head(todo).k \in {"write", "read"}
    /\ bus = "open"
    /\ faults < MaxFaults
    /\ faults' = faults + 1
    /\ Raising(Tail(todo), "OSError")
    /\ Logged(Head(todo), "failed")
    /\ UNCHANGED << program, chip, fields, console, counters, interrupts, calls >>

\* a transfer is attempted on the closed bus: smbus2 raises TypeError
TransferOnClosedBus ==
    /\ Running
    /\ Head(todo).k \in {"write", "read"}
    /\ bus = "closed"
    /\ late' = late + 1
    /\ Raising(Tail(todo), "TypeError")
    /\ Logged(Head(todo), "closed")
    /\ UNCHANGED << program, chip, fields, console, cleanups, closes, aborted, again,
                    budget >>

\* a raise statement: sys.exit(0), the use of an unbound name, or the
\* exception a finally clause passes on
DoRaise ==
    /\ Running
    /\ Head(todo).k = "raise"
    /\ Raising(Tail(todo), Head(todo).n)
    /\ Logged(Head(todo), "ok")
    /\ UNCHANGED << program, chip, fields, console, counters, budget >>

\* the lines the operator may type at the prompt of operation op
Answers(op) ==
    IF op.n = "response" THEN {"y", "n", "q"}
    ELSE IF op.x < MaxAdjust THEN {"+", "-", "c", "q"} ELSE {"c", "q"}

\* input() at "Is this centered?" and at "Adjust:"
DoInput ==
    /\ Running
    /\ Head(todo).k = "input"
    /\ Head(todo).n \in {"response", "cmd"}
    /\ \E line \in Answers(Head(todo)) : response' = line
    /\ todo' = Tail(todo)
    /\ Logged(Head(todo), "ok")
    /\ UNCHANGED << program, chip, fields, handler, current_pos, raising,
                    counters, budget >>

\* best_position = float(input(...) or "1.5")
DoInputPosition ==
    /\ Running
    /\ Head(todo).k = "input"
    /\ Head(todo).n = "best_position"
    /\ \E p \in PositionInputs : current_pos' = p
    /\ todo' = Tail(todo)
    /\ Logged(Head(todo), "ok")
    /\ UNCHANGED << program, chip, fields, handler, response, raising,
                    counters, budget >>

\* the operator presses Ctrl+C: with demo_script's handler installed,
\* signal_handler runs in front of the interrupted code; otherwise Python
\* raises KeyboardInterrupt at the point reached
Interrupt ==
    /\ Running
    /\ interrupts < MaxInterrupts
    /\ interrupts' = interrupts + 1
    /\ aborted' = (aborted \/ controller)
    /\ again' = again
    /\ IF handler = "signal_handler"
         THEN /\ todo' = << Call("signal_handler", 0, 0, 0) >> \o todo
              /\ UNCHANGED << exc, uncaught >>
         ELSE Raising(todo, "KeyboardInterrupt")
    /\ UNCHANGED << program, chip, fields, console, log, cleanups, closes, late,
                    faults, calls >>

Step ==
    \/ DoCall
    \/ DoClause
    \/ DoReturn
    \/ DoSleep
    \/ DoSet
    \/ DoOpen
    \/ DoClose
    \/ DoWrite
    \/ DoRead
    \/ TransferFails
    \/ TransferOnClosedBus
    \/ DoRaise

Next ==
    \/ Step
    \/ DoStatement
    \/ DoInput
    \/ DoInputPosition
    \/ Interrupt

Spec == Init /\ [][Next]_vars

----------------------------------------------------------------------------
(* The classes used by an external caller: it constructs a PCA9685 or a     *)
(* motion controller and then calls its public methods in any order.       *)

Scripts == {DEMO, DONKEY, CALIB}

\* construction frequencies the caller may ask for
Frequencies == {24, 60, 1526}
\* channels the caller addresses
ApiChannels == {0, 15}
\* pulse widths the caller asks for, in microseconds
ApiPulses == {0, 400, 1500, 2600, 20000}
\* OFF tick values the caller passes to set_pwm
ApiTicks == {0, 4095, 4096}
\* normalized commands the caller gives, in tenths
ApiCommands == {-20, -10, -5, 0, 5, 10, 20}
\* steering centers the caller sets, in microseconds
ApiCenters == {1500, 2300}

\* the calls open to the holder of a constructed object, on these channels
ApiCallsOn(channels) ==
    IF routine = "PCA9685" THEN
        { Call("set_pulse", c, p, 0) : c \in channels, p \in ApiPulses }
        \cup (IF script = DEMO THEN {}
              ELSE { Call("set_pwm", c, 0, t) : c \in channels, t \in ApiTicks })
        \cup (IF script = CALIB THEN {} ELSE { Call("stop_all_channels", 0, 0, 0) })
        \cup { Call("close", 0, 0, 0) }
    ELSE
        { Call("stop", 0, 0, 0), Call("cleanup", 0, 0, 0) }
        \cup (IF script = DONKEY
              THEN { Call("set_steering", c, 0, 0) : c \in ApiCommands }
                   \cup { Call("set_throttle", c, 0, 0) : c \in ApiCommands }
                   \cup { Call("set_steering_center", c, 0, 0) : c \in ApiCenters }
              ELSE { Call("set_steering", p, 0, 0) : p \in ApiPulses }
                   \cup { Call("set_throttle", p, 0, 0) : p \in ApiPulses })

ApiCalls == ApiCallsOn(ApiChannels)

\* the caller constructs PCA9685(frequency=f) of one of the three scripts, for
\* one of these frequencies, or the motion controller of demo_script or
\* donkey_motor_test
ApiInitAt(frequencies) ==
    /\ script \in Scripts
    /\ routine \in {"PCA9685", "Controller"}
    /\ routine = "Controller" => script # CALIB
    /\ \E f \in frequencies :
          todo = << Call(routine, IF routine = "PCA9685" THEN f ELSE 0, 0, 0),
                    Set("controller", 1) >>
    /\ InitCommon

ApiInit == ApiInitAt(Frequencies)

\* the caller, holding a constructed object, makes one of these calls next
ApiCallOf(ops) ==
    /\ todo = << >>
    /\ controller
    /\ calls < MaxCalls
    /\ calls' = calls + 1
    /\ \E op \in ops :
          /\ todo' = << op >>
          /\ again' = (/\ op.n = "stop"
                       /\ log # << >>
                       /\ log[1].k = "call" /\ log[1].n = "stop"
                       /\ log[Len(log)].k = "ret" /\ log[Len(log)].n = "stop")
    /\ log' = << >>
    /\ exc' = "none"
    /\ uncaught' = "none"
    /\ UNCHANGED << program, chip, fields, console, cleanups, closes, late, aborted,
                    interrupts, faults >>

ApiCall == ApiCallOf(ApiCalls)

\* one step inside a method that an outside caller started
ApiStep ==
    \/ DoCall
    \/ DoReturn
    \/ DoSleep
    \/ DoSet
    \/ DoOpen
    \/ DoClose
    \/ DoWrite
    \/ DoRead
    \/ TransferFails
    \/ TransferOnClosedBus

ApiNext == ApiStep \/ ApiCall

ApiSpec == ApiInit /\ [][ApiNext]_vars

\* a frequency and a channel the chip does not support, which the signatures
\* of PCA9685.__init__, set_pulse and set_pwm accept all the same
UnsupportedFrequencies == {20}
InvalidChannels == {16}

\* the same caller, also passing unsupported arguments
WideApiInit == ApiInitAt(Frequencies \cup UnsupportedFrequencies)

WideApiCall == ApiCallOf(ApiCallsOn(ApiChannels \cup InvalidChannels))

WideApiNext == ApiStep \/ WideApiCall

WideApiSpec == WideApiInit /\ [][WideApiNext]_vars

\* ---------------------------------------------------------------------
\* Properties
\* ---------------------------------------------------------------------

\* the process has ended: nothing is left to run
Exited == todo = << >>

\* the routines that drive the car through a motion controller
MotionRoutines == {"run_demo", "test_donkey_car", "test_simple_donkey"}

\* history event i is the call of function n / the return of function n
IsCall(i, n) == log[i].k = "call" /\ log[i].n = n
IsRet(i, n)  == log[i].k = "ret" /\ log[i].n = n

\* the register writes on behalf of the set_pulse call at history index i
PulseWrites(i) ==
    { j \in (i + 1)..Len(log) :
        /\ log[j].k = "write"
        /\ \A m \in (i + 1)..j : log[m].k = "write" \/ IsCall(m, "set_pwm") }

\* the OFF tick count the chip holds for a channel
OffTicks(channel) == regs[base_reg(channel) + 2] + 256 * regs[base_reg(channel) + 3]

\* C1: in every copy of the driver, set_pulse(channel, pulse) brings the
\* pulse into [0.5 ms, 2.5 ms] before converting it: the OFF bytes it writes
\* are those of the clamped pulse, whatever pulse the caller passed.
C1_SetPulseClamps ==
    \A i \in DOMAIN log :
        IsCall(i, "set_pulse") =>
            \A j \in PulseWrites(i) :
                /\ log[j].x = base_reg(log[i].x) + 2 =>
                      log[j].y = pulse_value(clamp_pulse(log[i].y), frequency) % 256
                /\ log[j].x = base_reg(log[i].x) + 3 =>
                      log[j].y = pulse_value(clamp_pulse(log[i].y), frequency) \div 256

\* C2: the OFF tick count stored for every channel stays within 0..4095:
\* no OFF high byte that is written, and none the chip holds, exceeds 0x0F.
C2_OffTicksInRange ==
    /\ \A c \in 0..(NumChannels - 1) : OffTicks(c) <= 4095
    /\ \A i \in DOMAIN log :
          (log[i].k = "write" /\ \E c \in 0..(NumChannels - 1) :
                                     log[i].x = base_reg(c) + 3)
              => log[i].y <= 15

\* C3: when a SIGINT arrived after the motion controller was constructed,
\* the process has run cleanup exactly once by the time it exits, and the
\* throttle channel is not left at a non-neutral pulse.
C3_InterruptCleansUpOnce ==
    (Exited /\ aborted /\ routine \in MotionRoutines)
        => /\ cleanups = 1
           /\ OffTicks(THROTTLE_CHANNEL) \in {0, pulse_value(throttle_neutral, frequency)}

\* C4: in run_demo, whichever paths trigger cleanup, no bus transfer is
\* attempted after the bus was closed, the bus is not closed twice, and when
\* cleanup was triggered more than once the bus is closed once at exit.
C4_ShutdownIdempotent ==
    routine = "run_demo" =>
        /\ late = 0
        /\ closes <= 1
        /\ (Exited /\ cleanups >= 2 /\ faults = 0) => closes = 1

\* C5: a completed cleanup of either motion controller did, in this order:
\* stop(), a settle wait, stop_all_channels(), bus.close().
C5_ShutdownOrder ==
    \A i \in DOMAIN log :
        IsCall(i, "cleanup") =>
            \A j \in (i + 1)..Len(log) :
                IsRet(j, "cleanup") =>
                    /\ IsCall(i + 1, "stop")
                    /\ \E a \in (i + 1)..j : \E c \in (i + 1)..j :
                          /\ a + 2 < c /\ c + 2 < j
                          /\ IsRet(a, "stop")
                          /\ log[a + 1].k = "sleep"
                          /\ IsCall(a + 2, "stop_all_channels")
                          /\ IsRet(c, "stop_all_channels")
                          /\ IsCall(c + 1, "close")
                          /\ log[c + 2].k = "close" /\ log[c + 2].s = "ok"

\* the four registers of a channel
ChannelRegs(channel) == base_reg(channel)..(base_reg(channel) + 3)

\* C6: a hard stop of all 16 channels comes after the last pulse write and
\* before every close of the bus, so that once the bus is closed the ON and
\* OFF registers of all 16 channels hold 0.
C6_HardStopBeforeClose ==
    bus = "closed" =>
        \A c \in 0..(NumChannels - 1) : \A a \in ChannelRegs(c) : regs[a] = 0

\* C7: when a transfer failed during the construction of the controller or
\* during its shutdown, the process does not end with the opened bus still
\* unreleased.
C7_BestEffortRelease ==
    (/\ Exited /\ interrupts = 0 /\ faults > 0
     /\ bus # "none"
     /\ ~controller \/ cleanups > 0)
        => bus = "closed"

\* history event i is a transfer of init_pca9685 that failed
InitFailedAt(i) ==
    /\ log[i].k \in {"write", "read"}
    /\ log[i].s = "failed"
    /\ \E c \in 1..(i - 1) :
          /\ IsCall(c, "init_pca9685")
          /\ \A m \in c..i : ~IsRet(m, "init_pca9685")

\* C8: when a transfer of init_pca9685 fails, the failed transfer is the last
\* thing the constructor does (no retry, no later step of the sequence), the
\* OSError it raised reaches the caller, and no controller is bound.
C8_InitErrorAborts ==
    \A i \in DOMAIN log :
        InitFailedAt(i) =>
            /\ i = Len(log)
            /\ todo = << >>
            /\ exc = "OSError" /\ uncaught = "OSError"
            /\ ~controller

\* the write of the prescaler, in the middle of init_pca9685, failed
C8_Witness ==
    /\ \E i \in DOMAIN log : InitFailedAt(i) /\ log[i].x = PRESCALE
    /\ uncaught = "OSError"

\* history event j belongs to the stop() called at history index i
InStop(i, j) == i < j /\ \A m \in (i + 1)..j : ~IsRet(m, "stop")

\* C9: within one stop(), every write to a steering register comes after the
\* four writes that bring the throttle channel to neutral have succeeded.
C9_StopThrottleFirst ==
    \A i \in DOMAIN log :
        IsCall(i, "stop") =>
            \A j \in (i + 1)..Len(log) :
                (/\ log[j].k = "write"
                 /\ log[j].x \in ChannelRegs(STEERING_CHANNEL)
                 /\ InStop(i, j))
                    => Cardinality({ m \in (i + 1)..(j - 1) :
                                       /\ log[m].k = "write" /\ log[m].s = "ok"
                                       /\ log[m].x \in ChannelRegs(THROTTLE_CHANNEL) }) = 4

\* a stop() of either controller ran to its end and wrote the steering channel
C9_Witness ==
    \E i \in DOMAIN log : \E j \in DOMAIN log :
        /\ IsCall(i, "stop") /\ j = Len(log) /\ IsRet(j, "stop") /\ i < j
        /\ \E m \in (i + 1)..j :
              log[m].k = "write" /\ log[m].x \in ChannelRegs(STEERING_CHANNEL)

\* the pulse for command c (in tenths) under the calibration (center, range)
CommandPulse(center, range, c) ==
    LET lo == IF c < 10 THEN c ELSE 10
        cc == IF lo > -10 THEN lo ELSE -10
    IN  center + (cc * range) \div 10

\* history event i is a call of setter n that has issued its pulse, and the
\* pulse goes to this channel with this width
Issues(i, n, channel, pulse_us) ==
    (IsCall(i, n) /\ i < Len(log)) =>
        /\ IsCall(i + 1, "set_pulse")
        /\ log[i + 1].x = channel
        /\ log[i + 1].y = pulse_us

\* C10: DonkeyCarController.set_steering(c) issues steering_center +
\* clamp(c) * steering_range and set_throttle(c) throttle_neutral + clamp(c) *
\* throttle_range, from the current calibration only; with 1.8 ms / 0.5 ms
\* the commands -1, 0, +1, 2 give 1.3, 1.8, 2.3, 2.3 ms, and with 1.5 ms /
\* 0.4 ms the throttle command 0.5 gives 1.7 ms.
C10_CommandMapping ==
    script = DONKEY =>
        \A i \in DOMAIN log :
            /\ Issues(i, "set_steering", STEERING_CHANNEL,
                      CommandPulse(steering_center, steering_range, log[i].x))
            /\ Issues(i, "set_throttle", THROTTLE_CHANNEL,
                      CommandPulse(throttle_neutral, throttle_range, log[i].x))
            /\ (steering_center = 1800 /\ steering_range = 500) =>
                  /\ log[i].x <= -10 => Issues(i, "set_steering", STEERING_CHANNEL, 1300)
                  /\ log[i].x = 0 => Issues(i, "set_steering", STEERING_CHANNEL, 1800)
                  /\ log[i].x >= 10 => Issues(i, "set_steering", STEERING_CHANNEL, 2300)
            /\ (throttle_neutral = 1500 /\ throttle_range = 400 /\ log[i].x = 5) =>
                  Issues(i, "set_throttle", THROTTLE_CHANNEL, 1700)

\* set_steering(2.0) was called and its pulse of 2.3 ms has been issued
C10_Witness ==
    /\ script = DONKEY
    /\ steering_center = 1800
    /\ \E i \in DOMAIN log :
          /\ IsCall(i, "set_steering") /\ log[i].x = 20
          /\ i < Len(log) /\ log[i + 1].y = 2300

\* does the byte v have the bit of weight b set
HasBit(v, b) == (v \div b) % 2 = 1

\* is this history event a bus transfer
IsTransfer(e) == e.k \in {"write", "read"}

\* the history index where the init_pca9685 called at index i ends, or the
\* end of the history while it runs
InitEnd(i) ==
    IF \E j \in (i + 1)..Len(log) : IsRet(j, "init_pca9685")
    THEN CHOOSE j \in (i + 1)..Len(log) : IsRet(j, "init_pca9685")
    ELSE Len(log)

\* the bus transfers attempted so far by the init_pca9685 called at index i
InitTransfers(i) == SelectSeq(SubSeq(log, i, InitEnd(i)), IsTransfer)

\* does transfer t write value v to register reg
Writes(t, reg, v) == t.k = "write" /\ t.x = reg /\ t.y = v

\* is transfer number n of the initialisation the one the sequence prescribes,
\* where old is the mode value that step (2) read
InitStepOk(t, n, old) ==
    CASE n = 1 -> Writes(t, 0, 0)
      [] n = 2 -> t.k = "read" /\ t.x = 0
      [] n = 3 -> t.k = "write" /\ t.x = 0 /\ HasBit(t.y, 16)
      [] n = 4 -> Writes(t, 254, prescale(frequency))
      [] n = 5 -> Writes(t, 0, old)
      [] n = 6 -> t.k = "write" /\ t.x = 0 /\ HasBit(t.y, 32)
                  /\ t.y \in {old, old + 32}
      [] OTHER -> FALSE

\* C11: construction performs exactly the six transfers of the init sequence
\* in order (wake, read mode, sleep, prescale, restore mode, and after a
\* settle delay resume); the prescaler is written only while the last mode
\* value written has the sleep bit; no channel register is written before
\* the sixth transfer has completed.
C11_InitSequence ==
    \A i \in DOMAIN log :
        IsCall(i, "init_pca9685") =>
            LET T == InitTransfers(i) IN
            /\ \A n \in DOMAIN T : InitStepOk(T[n], n, old_mode)
            /\ IsRet(InitEnd(i), "init_pca9685") => Len(T) = 6
            /\ \A j \in (i + 1)..Len(log) :
                  /\ (log[j].k = "write" /\ log[j].x = 0 /\ HasBit(log[j].y, 32))
                        => log[j - 1].k = "sleep"
                  /\ (log[j].k = "write" /\ log[j].x = 254) =>
                        \E m \in (i + 1)..(j - 1) :
                            /\ log[m].k = "write" /\ log[m].x = 0 /\ log[m].s = "ok"
                            /\ HasBit(log[m].y, 16)
                            /\ \A q \in (m + 1)..(j - 1) :
                                  ~(log[q].k = "write" /\ log[q].x = 0)
                  /\ (log[j].k = "write" /\ \E c \in 0..(NumChannels - 1) :
                                                log[j].x \in ChannelRegs(c))
                        => \E m \in (i + 1)..(j - 1) :
                              /\ log[m].k = "write" /\ log[m].x = 0 /\ log[m].s = "ok"
                              /\ HasBit(log[m].y, 32)

\* a motion controller is being constructed: init_pca9685 ran to its end and
\* a channel register has been written since
C11_Witness ==
    /\ \E j \in DOMAIN log : IsRet(j, "init_pca9685")
    /\ \E j \in DOMAIN log : log[j].k = "write" /\ log[j].x = base_reg(THROTTLE_CHANNEL)

\* the integer nearest to a / b, for a >= 0 and b > 0
RoundDiv(a, b) == (2 * a + b) \div (2 * b)

\* round(pulse_ms * frequency * 4096 / 1000) for a pulse in microseconds; the
\* fraction 4096 / 1000000 is 64 / 15625 in lowest terms
RoundedTicks(pulse_us, f) == RoundDiv(pulse_us * f * 64, 15625)

\* C12: set_pulse converts the pulse width to ticks by rounding to the
\* nearest integer: the OFF bytes it writes are those of
\* round(pulse_ms * frequency * 4096 / 1000).  (Stated for pulses within
\* [0.5 ms, 2.5 ms], which no copy of set_pulse alters before converting.)
C12_SetPulseRounds ==
    \A i \in DOMAIN log :
        (IsCall(i, "set_pulse") /\ log[i].y >= 500 /\ log[i].y <= 2500) =>
            \A j \in PulseWrites(i) :
                /\ log[j].x = base_reg(log[i].x) + 2 =>
                      log[j].y = RoundedTicks(log[i].y, frequency) % 256
                /\ log[j].x = base_reg(log[i].x) + 3 =>
                      log[j].y = RoundedTicks(log[i].y, frequency) \div 256

\* the frequencies whose prescale value fits the chip's range
SupportedFrequencies == 24..1526

\* the prescaler has just been written, with value v
PrescaleWritten(v) ==
    /\ log # << >>
    /\ Writes(log[Len(log)], 254, v)
    /\ log[Len(log)].s = "ok"

\* C13: the prescale value computed at construction does not increase when
\* the frequency increases over the supported range, and at 60 Hz the value
\* written to register 0xFE is 100.
C13_PrescaleMonotone ==
    \A v \in 0..255 :
        PrescaleWritten(v) =>
            /\ frequency = 60 => v = 100 /\ regs[254] = 100
            /\ \A g \in SupportedFrequencies :
                  /\ g < frequency => prescale(g) >= v
                  /\ g > frequency => prescale(g) <= v
                  /\ g + 1 \in SupportedFrequencies => prescale(g) >= prescale(g + 1)

\* a controller constructed at 60 Hz has just written its prescaler
C13_Witness == frequency = 60 /\ PrescaleWritten(100)

\* C14: the value written to the prescale register is the integer nearest to
\* 25000000 / (4096 * frequency) - 1.
C14_PrescaleRounded ==
    \A i \in DOMAIN log :
        (log[i].k = "write" /\ log[i].x = 254) =>
            log[i].y = RoundDiv(25000000 - 4096 * frequency, 4096 * frequency)

\* C15: a frequency whose prescale value falls outside 3..255 makes the
\* construction fail: no value outside 3..255 is written to register 0xFE
\* and no controller is bound for such a frequency.
C15_PrescaleRange ==
    /\ \A i \in DOMAIN log :
          (log[i].k = "write" /\ log[i].x = 254) => log[i].y \in 3..255
    /\ (frequency > 0
        /\ RoundDiv(25000000 - 4096 * frequency, 4096 * frequency) \notin 3..255)
          => ~controller

\* history event i is a call of set_pulse or set_pwm
IsChannelCall(i) == IsCall(i, "set_pulse") \/ IsCall(i, "set_pwm")

\* C16: set_pwm, and set_pulse through it, called with a channel outside
\* 0..15 fails before any register is written, and every register written as
\* a channel register has its address within 0x06..0x45.
C16_InvalidChannel ==
    \A i \in DOMAIN log :
        IsChannelCall(i) =>
            /\ log[i].x \notin 0..15 => PulseWrites(i) = {}
            /\ log[i].x \notin 0..15 => \A j \in (i + 1)..Len(log) : log[j].k # "ret"
            /\ \A j \in PulseWrites(i) : log[j].x \in 6..69

\* stop_all_channels has returned and no register was written since
HardStopped ==
    \E j \in DOMAIN log :
        /\ IsRet(j, "stop_all_channels")
        /\ \A m \in (j + 1)..Len(log) : log[m].k # "write"

\* C17: once stop_all_channels() has completed, the four registers of each
\* of the 16 channels hold 0, whatever they held before.
C17_StopAllZeroes ==
    HardStopped =>
        \A c \in 0..(NumChannels - 1) : \A a \in ChannelRegs(c) : regs[a] = 0

\* a cleanup wrote non-zero pulses and then completed stop_all_channels
C17_Witness ==
    /\ HardStopped
    /\ \E i \in DOMAIN log : \E c \in 0..(NumChannels - 1) :
          /\ log[i].k = "write" /\ log[i].s = "ok"
          /\ log[i].x \in ChannelRegs(c) /\ log[i].y # 0

\* does the chip hold, for this channel, ON = 0 and the OFF tick count of a
\* pulse of this width (the count within one tick of pulse_us * f * 4096 / 10^6)
HoldsPulse(channel, pulse_us) ==
    /\ regs[base_reg(channel)] = 0 /\ regs[base_reg(channel) + 1] = 0
    /\ (OffTicks(channel) - 1) * 15625 < pulse_us * frequency * 64
    /\ pulse_us * frequency * 64 < (OffTicks(channel) + 1) * 15625

\* C18: when the constructor of a motion controller has returned, the
\* steering channel holds the ticks of steering_center and the throttle
\* channel those of throttle_neutral, and construction passed no other pulse
\* width to either channel.
C18_ConstructedNeutral ==
    \A j \in DOMAIN log :
        IsRet(j, "Controller") =>
            /\ HoldsPulse(STEERING_CHANNEL, 1800)
            /\ HoldsPulse(THROTTLE_CHANNEL, 1500)
            /\ steering_center = 1800 /\ throttle_neutral = 1500
            /\ \A i \in 1..j :
                  IsCall(i, "set_pulse") =>
                      \/ log[i].x = STEERING_CHANNEL /\ log[i].y = steering_center
                      \/ log[i].x = THROTTLE_CHANNEL /\ log[i].y = throttle_neutral

\* the constructor of PiRacerDemo has just returned
C18_Witness ==
    /\ script = DEMO
    /\ log # << >>
    /\ IsRet(Len(log), "Controller")

\* set_steering_center is about to run or is running
InRecalibration ==
    /\ todo # << >>
    /\ \/ log # << >> /\ IsCall(1, "set_steering_center")
       \/ Head(todo).k = "call" /\ Head(todo).n = "set_steering_center"

\* no step of set_steering_center touches the chip, the bus, the steering
\* range or the throttle calibration
RecalibrationFrame ==
    InRecalibration =>
        /\ regs' = regs /\ bus' = bus /\ late' = late
        /\ steering_range' = steering_range
        /\ throttle_neutral' = throttle_neutral
        /\ throttle_range' = throttle_range

\* after a recalibration (the stored center is no longer the constructed
\* 1.8 ms) set_steering issues the stored center + clamp(angle) * range
RecalibrationEffect ==
    (calls = 2 /\ steering_center # 1800 /\ Len(log) >= 2 /\ IsCall(1, "set_steering"))
        => /\ steering_center \in ApiCenters
           /\ steering_range = 500
           /\ Issues(1, "set_steering", STEERING_CHANNEL,
                     CommandPulse(steering_center, 500, log[1].x))

\* C19: set_steering_center(new_center) replaces only the stored steering
\* center: it issues no bus transfer and leaves the registers, steering_range
\* and the throttle calibration unchanged; the next set_steering issues
\* new_center + clamp(angle) * steering_range.
C19_RecalibrateCenter == [][RecalibrationFrame]_vars /\ []RecalibrationEffect

\* after set_steering_center(2.3), set_steering(1.0) has issued 2.8 ms
C19_Witness ==
    /\ calls = 2 /\ steering_center = 2300
    /\ Len(log) >= 2 /\ IsCall(1, "set_steering") /\ log[1].x = 10
    /\ log[2].y = 2800

\* is a steering center within the safe range together with its half range
SafeCenter(center_us) ==
    center_us - steering_range >= 500 /\ center_us + steering_range <= 2500

\* C20: a recalibration whose center - range or center + range leaves
\* [0.5 ms, 2.5 ms] is rejected: set_steering_center does not return
\* normally and the stored center stays a safe one.
C20_RecalibrationRejected ==
    (script = DONKEY /\ routine = "Controller" /\ controller) =>
        /\ SafeCenter(steering_center)
        /\ \A i \in DOMAIN log :
              (IsCall(i, "set_steering_center") /\ ~SafeCenter(log[i].x)) =>
                  \A j \in (i + 1)..Len(log) : log[j].k \notin {"set", "ret"}

\* a step of the stop() that the caller made right after a completed stop()
\* changes no register, no calibration field and nothing else of the chip
SecondStopFrame ==
    (again /\ todo # << >>) =>
        /\ regs' = regs
        /\ steering_center' = steering_center /\ steering_range' = steering_range
        /\ throttle_neutral' = throttle_neutral /\ throttle_range' = throttle_range
        /\ frequency' = frequency /\ bus' = bus /\ old_mode' = old_mode

\* C21: stop() is idempotent: a stop() called right after a stop() leaves
\* the steering and throttle registers, every other chip register and the
\* calibration fields as the first stop() left them.
C21_StopIdempotent == [][SecondStopFrame]_vars

\* the second of two successive stop() calls has returned
C21_Witness ==
    /\ again /\ todo = << >>
    /\ log # << >> /\ IsRet(Len(log), "stop")
    /\ \E m \in DOMAIN log :
          log[m].k = "write" /\ log[m].s = "ok" /\ log[m].y # 0

\* the test and demo routines (those of steering_calibration are calibration
\* tools with a finally clause of their own)
TestRoutines ==
    {"run_demo", "test_donkey_car", "test_simple_donkey", "debug_motor_channels"}

\* C22: a test or demo routine that constructed its controller has run its
\* shutdown whenever it returns, also when a bus transfer raised in the
\* middle of it: at the end of a run without SIGINT the bus is closed, so
\* that it is never left open with a pulse still commanded on the chip.
C22_ShutdownOnEveryPath ==
    (Exited /\ routine \in TestRoutines /\ controller /\ interrupts = 0) =>
        bus = "closed"

\* the channel call at history index i has returned
ChannelCallDone(i) ==
    \E j \in (i + 1)..Len(log) :
        /\ IsRet(j, log[i].n)
        /\ \A m \in (i + 1)..(j - 1) :
              log[m].k = "write" \/ IsCall(m, "set_pwm") \/ IsRet(m, "set_pwm")

\* the position of write j among the writes of the channel call at index i
WriteRank(i, j) == Cardinality({ m \in PulseWrites(i) : m <= j })

\* the transfers of a set_pulse / set_pwm call on a valid channel go to
\* base, base + 1, base + 2, base + 3 in this order, at most four of them and
\* four once the call has returned; set_pulse writes 0 to the two ON bytes
ChannelWriteOrder ==
    \A i \in DOMAIN log :
        (IsChannelCall(i) /\ log[i].x \in 0..(NumChannels - 1)) =>
            /\ Cardinality(PulseWrites(i)) <= 4
            /\ ChannelCallDone(i) => Cardinality(PulseWrites(i)) = 4
            /\ \A j \in PulseWrites(i) :
                  /\ log[j].x = base_reg(log[i].x) + WriteRank(i, j) - 1
                  /\ (IsCall(i, "set_pulse") /\ WriteRank(i, j) <= 2) => log[j].y = 0

\* no step of a set_pulse / set_pwm call on a valid channel changes a register
\* outside the four of that channel: not another channel's, not MODE1, not
\* the prescaler
ChannelWriteFrame ==
    (/\ todo # << >> /\ log # << >>
     /\ IsChannelCall(1) /\ log[1].x \in 0..(NumChannels - 1)) =>
        \A a \in RegAddrs \ ChannelRegs(log[1].x) : regs'[a] = regs[a]

\* C23: set_pulse(channel, pulse) and set_pwm(channel, on, off) with a channel
\* in 0..15 write exactly the registers 0x06 + 4*channel .. + 3, in the order
\* ON-low, ON-high, OFF-low, OFF-high, with ON = 0 for set_pulse, and leave the
\* registers of every other channel, MODE1 and the prescaler unchanged.
C23_ChannelWrites == [][ChannelWriteFrame]_vars /\ []ChannelWriteOrder

\* a set_pulse on channel 15 has returned after four writes, on a chip whose
\* channel 0 and prescaler hold non-zero values
C23_Witness ==
    /\ todo = << >> /\ log # << >>
    /\ IsCall(1, "set_pulse") /\ log[1].x = 15
    /\ ChannelCallDone(1) /\ Cardinality(PulseWrites(1)) = 4
    /\ regs[base_reg(15) + 2] # 0
    /\ regs[base_reg(0) + 2] # 0 /\ regs[PRESCALE] # 0

====
